---------------------------- MODULE Spec2Model ----------------------------
(***************************************************************************)
(* A model of python-simulator/adsb_simulator.py: the Aircraft class (its  *)
(* constructor, the flight dynamics of update_position, the emergency and  *)
(* conflict flags, generate_message) and the ADSBSimulator class (the      *)
(* separation scan, the emergency sampling, the Kafka publish path).       *)
(*                                                                         *)
(* Numbers.  Python floats are modelled in fixed point: an integer n       *)
(* stands for n / Scale (degrees, knots, feet, seconds).  Headings are the *)
(* one place where the code relies on float rounding (x % 360), so heading *)
(* arithmetic goes through Fl, a binary floating point format with         *)
(* MantBits bits of significand instead of 53.  Latitude and longitude are *)
(* in thousandths of a degree; geopy's geodesic is a third-party library   *)
(* and is modelled on a flat grid (MetresPerMilliDeg metres per unit).     *)
(***************************************************************************)
EXTENDS Integers, Sequences, FiniteSets, TLC

VARIABLES
    aircraft,   \* ADSBSimulator.aircraft: the sequence of Aircraft objects
    sim,        \* the other ADSBSimulator attributes (producer, counters, config)
    bus,        \* the calls made on the Kafka producer, in order
    ctor,       \* the outcome of the last Aircraft(...) constructor call
    last,       \* the last operation performed and what it returned or drew
    steps,      \* number of operations performed so far (bounded by MaxSteps)
    proc,       \* the process running main(): position, exit code, log
    frame       \* the locals of the _normalize_heading_difference call in progress

vars == <<aircraft, sim, bus, ctor, last, steps, proc, frame>>

---------------------------------------------------------------------------
(* Bounds of the model *)

MaxSteps == 2       \* update_position calls per behaviour
MaxCalls == 3       \* calls per behaviour on the flags, the scan and the publisher
MaxPasses == 2      \* passes of the loop of run per behaviour
MantBits == 12      \* significand bits of the modelled float format

(* Fixed-point scale: units per degree, knot, foot and second *)
Scale == 2^6

---------------------------------------------------------------------------
(* Arithmetic *)

Abs(x) == IF x < 0 THEN -x ELSE x

Max2(a, b) == IF a >= b THEN a ELSE b   \* Python max(a, b)

Min2(a, b) == IF b < a THEN b ELSE a    \* Python min(a, b)

RECURSIVE Log2Floor(_)
Log2Floor(n) == IF n < 2 THEN 0 ELSE 1 + Log2Floor(n \div 2)

\* The spacing of the representable floats around x (in grid units).
Ulp(x) ==
    IF Abs(x) < 2^MantBits THEN 1
    ELSE 2^(Log2Floor(Abs(x)) - MantBits + 1)

\* Round x to the nearest representable float, ties to even (IEEE 754).
Fl(x) ==
    LET u == Ulp(x)
        q == x \div u
        r == x - q * u
    IN  IF 2 * r < u THEN q * u
        ELSE IF 2 * r > u THEN (q + 1) * u
        ELSE IF q % 2 = 0 THEN q * u ELSE (q + 1) * u

FAdd(a, b) == Fl(a + b)     \* float a + b
FSub(a, b) == Fl(a - b)     \* float a - b

\* C fmod(x, m), m > 0: exact, with the sign of x.
Fmod(x, m) == IF x >= 0 THEN x % m ELSE -((-x) % m)

\* Python float x % m for m > 0 (CPython float_rem): fmod, then the divisor
\* is added to a negative remainder, and that sum is rounded like any other.
PyMod(x, m) ==
    LET r == Fmod(x, m)
    IN  IF r < 0 THEN FAdd(r, m) ELSE r

\* Python int(x) for a float x: truncation toward zero.
PyInt(x) == IF x >= 0 THEN x \div Scale ELSE -((-x) \div Scale)

RECURSIVE SqrtSearch(_, _, _)
SqrtSearch(n, lo, hi) ==
    IF lo = hi THEN lo
    ELSE LET mid == (lo + hi + 1) \div 2
         IN  IF mid * mid <= n THEN SqrtSearch(n, mid, hi)
             ELSE SqrtSearch(n, lo, mid - 1)

ISqrt(n) == SqrtSearch(n, 0, 46340)

Deg(d) == d * Scale     \* d degrees (knots, feet, seconds) in grid units

---------------------------------------------------------------------------
(* Geodesy.  geopy.distance.geodesic and geopy.Point are library code; the  *)
(* model places points on a flat grid of thousandths of a degree.           *)

MetresPerMilliDeg == 111

Point(lat, lon) == [latitude |-> lat, longitude |-> lon]

\* geodesic(p, q): the distance between two points, in hectometres.  Each
\* axis is capped so that the squares stay in range: beyond the cap a pair
\* is simply far apart.
geodesic(p, q) ==
    LET dy == Min2((Abs(p.latitude - q.latitude) * MetresPerMilliDeg) \div 100, 32000)
        dx == Min2((Abs(p.longitude - q.longitude) * MetresPerMilliDeg) \div 100, 32000)
    IN  ISqrt(dx * dx + dy * dy)

\* geodesic(...).kilometers < km
KilometersLess(d, km) == d < km * 10

\* geodesic(...).nautical < nm, one nautical mile being 1.852 km
NauticalLess(d, nm) == d * 100 < nm * 1852

Cos1000 == <<1000, 707, 0, -707, -1000, -707, 0, 707>>
Sin1000 == <<0, 707, 1000, 707, 0, -707, -1000, -707>>

\* The compass octant (0 = north, clockwise) nearest to a bearing >= 0.
Octant(bearing) == ((bearing + (Deg(45) \div 2)) \div Deg(45)) % 8

TruncDiv(a, b) == IF a >= 0 THEN a \div b ELSE -((-a) \div b)

\* geodesic(kilometers=d).destination(origin, bearing), d given in metres.
destination(origin, bearing, metres) ==
    LET o == Octant(bearing) + 1
    IN  Point(origin.latitude
                  + TruncDiv(metres * Cos1000[o], 1000 * MetresPerMilliDeg),
              origin.longitude
                  + TruncDiv(metres * Sin1000[o], 1000 * MetresPerMilliDeg))

\* Aircraft._calculate_bearing: atan2(y, x) in degrees, then (b + 360) % 360.
\* atan2 is modelled to the nearest 45 degrees; atan2(0, 0) = 0.
calculate_bearing(point1, point2) ==
    LET x == point2.latitude - point1.latitude      \* the north component
        y == point2.longitude - point1.longitude    \* the east component
        oct == IF x = 0 /\ y = 0 THEN 0
               ELSE IF 1000 * Abs(y) < 414 * Abs(x) THEN (IF x > 0 THEN 0 ELSE -4)
               ELSE IF 1000 * Abs(x) < 414 * Abs(y) THEN (IF y > 0 THEN 2 ELSE -2)
               ELSE IF x > 0 THEN (IF y > 0 THEN 1 ELSE -1)
               ELSE (IF y > 0 THEN 3 ELSE -3)
        bearing == Deg(45 * oct)                    \* in [-180, 180]
    IN  PyMod(FAdd(bearing, Deg(360)), Deg(360))

---------------------------------------------------------------------------
(* class Aircraft.  An object is a record of its attributes; attrs is the   *)
(* set of attribute names assigned so far (the instance __dict__): reading  *)
(* an attribute that is not in attrs raises AttributeError.                 *)

AllAttrs ==
    {"icao_address", "aircraft_type", "callsign", "latitude", "longitude",
     "altitude", "ground_speed", "max_speed", "min_speed", "climb_rate",
     "heading", "target_altitude", "target_speed", "target_heading",
     "waypoints", "current_waypoint_index", "emergency_state",
     "conflict_state", "squawk"}

\* The waypoints appended by _generate_flight_plan: a chain from cur, one
\* waypoint per leg (a drawn distance in km and a drawn bearing), named WPT<i>.
RECURSIVE plan_waypoints(_, _, _)
plan_waypoints(cur, legs, i) ==
    IF i > Len(legs) THEN <<>>
    ELSE LET dest == destination(cur, legs[i].bearing, legs[i].distance_km * 1000)
         IN  <<[latitude |-> dest.latitude, longitude |-> dest.longitude,
                name |-> i]>>
             \o plan_waypoints(dest, legs, i + 1)

\* Aircraft._generate_flight_plan with num_waypoints = Len(legs) in 3..5.
\* The first self.waypoints.append raises when the attribute is not set.
generate_flight_plan(self, legs) ==
    IF "waypoints" \notin self.attrs
    THEN [exc |-> "AttributeError", self |-> self]
    ELSE [exc |-> "none",
          self |-> [self EXCEPT !.waypoints =
                       @ \o plan_waypoints(Point(self.latitude, self.longitude),
                                           legs, 1)]]

\* track_waypoint without the new flight plan: the index alone moves on.
track_waypoint_dangling(self, legs) ==
    IF self.current_waypoint_index < Len(self.waypoints)
    THEN LET target == self.waypoints[self.current_waypoint_index + 1]
             current_pos == Point(self.latitude, self.longitude)
             target_pos == Point(target.latitude, target.longitude)
             s1 == [self EXCEPT
                      !.target_heading = calculate_bearing(current_pos, target_pos)]
         IN  IF KilometersLess(geodesic(current_pos, target_pos), 5)
             THEN [s1 EXCEPT !.current_waypoint_index = @ + 1]
             ELSE s1
    ELSE self

\* track_waypoint that starts the plan again from its first waypoint when
\* a waypoint is reached.
track_waypoint_restarts(self, legs) ==
    IF self.current_waypoint_index < Len(self.waypoints)
    THEN LET target == self.waypoints[self.current_waypoint_index + 1]
             current_pos == Point(self.latitude, self.longitude)
             target_pos == Point(target.latitude, target.longitude)
             s1 == [self EXCEPT
                      !.target_heading = calculate_bearing(current_pos, target_pos)]
         IN  IF KilometersLess(geodesic(current_pos, target_pos), 5)
             THEN IF s1.current_waypoint_index + 1 >= Len(s1.waypoints)
                  THEN generate_flight_plan(
                           [s1 EXCEPT !.waypoints = <<>>,
                                      !.current_waypoint_index = 0],
                           legs).self
                  ELSE [s1 EXCEPT !.current_waypoint_index = 0]
             ELSE s1
    ELSE self

\* update_position, lines 147-167: steer to the current waypoint and step
\* to the next one when it is reached.
track_waypoint(self, legs) ==
    IF self.current_waypoint_index < Len(self.waypoints)
    THEN LET target == self.waypoints[self.current_waypoint_index + 1]
             current_pos == Point(self.latitude, self.longitude)
             target_pos == Point(target.latitude, target.longitude)
             distance_to_target == geodesic(current_pos, target_pos)
             bearing_to_target == calculate_bearing(current_pos, target_pos)
             s1 == [self EXCEPT !.target_heading = bearing_to_target]
         IN  IF KilometersLess(distance_to_target, 5)
             THEN LET s2 == [s1 EXCEPT !.current_waypoint_index = @ + 1]
                  IN  IF s2.current_waypoint_index >= Len(s2.waypoints)
                      THEN generate_flight_plan(
                               [s2 EXCEPT !.waypoints = <<>>,
                                          !.current_waypoint_index = 0],
                               legs).self
                      ELSE s2
             ELSE s1
    ELSE self

\* Whether this update_position call draws a new flight plan.
RegeneratesPlan(self) ==
    /\ self.waypoints # <<>>
    /\ self.current_waypoint_index < Len(self.waypoints)
    /\ self.current_waypoint_index + 1 >= Len(self.waypoints)
    /\ LET target == self.waypoints[self.current_waypoint_index + 1]
       IN  KilometersLess(geodesic(Point(self.latitude, self.longitude),
                                   Point(target.latitude, target.longitude)), 5)

\* Aircraft._normalize_heading_difference: the two while loops.
RECURSIVE normalize_heading_difference(_)
normalize_heading_difference(diff) ==
    IF diff > Deg(180) THEN normalize_heading_difference(FSub(diff, Deg(360)))
    ELSE IF diff < -Deg(180) THEN normalize_heading_difference(FAdd(diff, Deg(360)))
    ELSE diff

MaxTurnRate == 3

\* The heading slew without the snap: it steps by the full turn rate even
\* when the target is closer than that.
update_heading_always_steps(self, delta_time) ==
    LET max_turn == Fl(MaxTurnRate * delta_time)
        heading_diff ==
            normalize_heading_difference(FSub(self.target_heading, self.heading))
        turn_direction == IF heading_diff > 0 THEN 1 ELSE -1
    IN  [self EXCEPT !.heading =
            PyMod(FAdd(self.heading, turn_direction * max_turn), Deg(360))]

\* update_position, lines 169-179: the heading slew.  delta_time is in grid
\* units of a second, so max_turn_rate * delta_time is in heading units.
update_heading(self, delta_time) ==
    LET max_turn == Fl(MaxTurnRate * delta_time)
        heading_diff ==
            normalize_heading_difference(FSub(self.target_heading, self.heading))
        turn_direction == IF heading_diff > 0 THEN 1 ELSE -1
        h == IF Abs(heading_diff) > max_turn
             THEN FAdd(self.heading, turn_direction * max_turn)
             ELSE self.target_heading
    IN  [self EXCEPT !.heading = PyMod(h, Deg(360))]

MaxAcceleration == 2

\* Aircraft._update_speed
update_speed(self, delta_time) ==
    LET speed_diff == self.target_speed - self.ground_speed
        acceleration_direction == IF speed_diff > 0 THEN 1 ELSE -1
        gs == IF Abs(speed_diff) > MaxAcceleration * delta_time
              THEN self.ground_speed
                       + acceleration_direction * MaxAcceleration * delta_time
              ELSE self.target_speed
    IN  [self EXCEPT !.ground_speed =
            Max2(self.min_speed, Min2(self.max_speed, gs))]

MinAltitude == 1000
MaxAltitude == 60000

\* Aircraft._update_altitude; climb_rate is in ft/min.
update_altitude(self, delta_time) ==
    LET altitude_diff == self.target_altitude - self.altitude
        max_climb == (self.climb_rate * delta_time) \div (60 * Scale)
        climb_direction == IF altitude_diff > 0 THEN 1 ELSE -1
        alt == IF Abs(altitude_diff) > max_climb
               THEN self.altitude + climb_direction * max_climb
               ELSE self.target_altitude
    IN  [self EXCEPT !.altitude =
            Max2(Deg(MinAltitude), Min2(Deg(MaxAltitude), alt))]

\* update_position, lines 185-192: ground_speed * 1.852 km/h over delta_time.
translate(self, delta_time) ==
    LET metres == (((self.ground_speed * delta_time) \div Scale) * 463)
                      \div (900 * Scale)
        new_pos == destination(Point(self.latitude, self.longitude),
                               self.heading, metres)
    IN  IF self.ground_speed * delta_time > 0
        THEN [self EXCEPT !.latitude = new_pos.latitude,
                          !.longitude = new_pos.longitude]
        ELSE self

\* _add_realistic_variations without the clamps after the noise.
add_variations_unclamped(self, noise) ==
    [self EXCEPT
        !.heading = PyMod(FAdd(@, noise.heading), Deg(360)),
        !.ground_speed = @ + noise.speed,
        !.altitude = @ + noise.altitude]

\* Aircraft._add_realistic_variations; noise holds the three uniform draws.
add_realistic_variations(self, noise) ==
    [self EXCEPT
        !.heading = PyMod(FAdd(@, noise.heading), Deg(360)),
        !.ground_speed =
            Max2(self.min_speed, Min2(self.max_speed, @ + noise.speed)),
        !.altitude =
            Max2(Deg(MinAltitude), Min2(Deg(MaxAltitude), @ + noise.altitude))]

\* Aircraft.update_position(delta_time); legs and noise are what the call
\* draws from the random module.
\* update_position without the early return of line 143.
update_position_unguarded(self, delta_time, legs, noise) ==
    add_realistic_variations(
        translate(
            update_altitude(
                update_speed(
                    update_heading(track_waypoint(self, legs), delta_time),
                    delta_time),
                delta_time),
            delta_time),
        noise)

update_position(self, delta_time, legs, noise) ==
    IF self.waypoints = <<>> THEN self
    ELSE add_realistic_variations(
             translate(
                 update_altitude(
                     update_speed(
                         update_heading(track_waypoint(self, legs), delta_time),
                         delta_time),
                     delta_time),
                 delta_time),
             noise)

\* The squawk table with a default of "1200" for an unknown type.
emergency_squawk_no_default(emergency_type) ==
    CASE emergency_type = "hijack" -> "7500"
      [] emergency_type = "communication" -> "7600"
      [] emergency_type = "general" -> "7700"
      [] OTHER -> "1200"

\* emergency_squawks.get(emergency_type, "7700")
emergency_squawk(emergency_type) ==
    CASE emergency_type = "hijack" -> "7500"
      [] emergency_type = "communication" -> "7600"
      [] emergency_type = "general" -> "7700"
      [] OTHER -> "7700"

\* Aircraft.trigger_emergency
trigger_emergency(self, emergency_type) ==
    [self EXCEPT !.emergency_state = TRUE,
                 !.squawk = emergency_squawk(emergency_type)]

\* clear_emergency that leaves the squawk code as it is.
clear_emergency_keeps_squawk(self) ==
    [self EXCEPT !.emergency_state = FALSE]

\* Aircraft.clear_emergency
clear_emergency(self) ==
    [self EXCEPT !.emergency_state = FALSE, !.squawk = "1200"]

\* set_conflict_state that also squawks 7700 for an aircraft in conflict.
set_conflict_state_squawks(self, in_conflict) ==
    [self EXCEPT !.conflict_state = in_conflict,
                 !.squawk = IF in_conflict THEN "7700" ELSE @]

\* Aircraft.set_conflict_state
set_conflict_state(self, in_conflict) ==
    [self EXCEPT !.conflict_state = in_conflict]

\* round(x, 6) of a coordinate: every point of the grid of thousandths of a
\* degree has at most six decimal digits.
Round6(x) == x

\* generate_message that rounds to the nearest integer instead of
\* truncating.
generate_message_rounds(self, now) ==
    [icao_address |-> self.icao_address,
     callsign |-> self.callsign,
     latitude |-> Round6(self.latitude),
     longitude |-> Round6(self.longitude),
     altitude |-> PyInt(self.altitude + Scale \div 2),
     ground_speed |-> PyInt(self.ground_speed + Scale \div 2),
     heading |-> PyInt(self.heading + Scale \div 2) % 360,
     timestamp |-> now,
     squawk |-> self.squawk,
     aircraft_type |-> self.aircraft_type]

\* Aircraft.generate_message; now is the wall clock read by datetime.now.
generate_message(self, now) ==
    [icao_address |-> self.icao_address,
     callsign |-> self.callsign,
     latitude |-> Round6(self.latitude),
     longitude |-> Round6(self.longitude),
     altitude |-> PyInt(self.altitude),
     ground_speed |-> PyInt(self.ground_speed),
     heading |-> PyInt(self.heading) % 360,
     timestamp |-> now,
     squawk |-> self.squawk,
     aircraft_type |-> self.aircraft_type]

\* An object on which no attribute has been assigned yet.
NewObject ==
    [attrs |-> {}, icao_address |-> "", aircraft_type |-> "", callsign |-> <<>>,
     latitude |-> 0, longitude |-> 0, altitude |-> 0, ground_speed |-> 0,
     max_speed |-> 0, min_speed |-> 0, climb_rate |-> 0, heading |-> 0,
     target_altitude |-> 0, target_speed |-> 0, target_heading |-> 0,
     waypoints |-> <<>>, current_waypoint_index |-> 0,
     emergency_state |-> FALSE, conflict_state |-> FALSE, squawk |-> ""]

\* The speed envelope assigned per aircraft type, in knots.
JetMaxSpeed == 600
JetMinSpeed == 200
PropMaxSpeed == 250
PropMinSpeed == 80

\* Aircraft._initialize_flight_parameters; d holds the random draws.  The
\* call of _generate_flight_plan is its last statement.
initialize_flight_parameters(self, d) ==
    LET jet == self.aircraft_type = "jet"
        s1 == [self EXCEPT
                 !.latitude = d.latitude,
                 !.longitude = d.longitude,
                 !.altitude = d.altitude,
                 !.ground_speed = d.ground_speed,
                 !.max_speed = Deg(IF jet THEN JetMaxSpeed ELSE PropMaxSpeed),
                 !.min_speed = Deg(IF jet THEN JetMinSpeed ELSE PropMinSpeed),
                 !.climb_rate = d.climb_rate,
                 !.heading = d.heading,
                 !.target_altitude = d.altitude,
                 !.target_speed = d.ground_speed,
                 !.target_heading = d.heading,
                 !.attrs = @ \cup {"latitude", "longitude", "altitude",
                                   "ground_speed", "max_speed", "min_speed",
                                   "climb_rate", "heading", "target_altitude",
                                   "target_speed", "target_heading"}]
    IN  generate_flight_plan(s1, d.legs)

\* Aircraft.__init__(icao_address, aircraft_type): the attributes in the
\* order the constructor assigns them.  An exception raised on the way
\* leaves the constructor at once.
aircraft_init(icao_address, aircraft_type, d) ==
    LET s1 == [NewObject EXCEPT
                 !.icao_address = icao_address,
                 !.aircraft_type = aircraft_type,
                 !.callsign = d.callsign,
                 !.attrs = {"icao_address", "aircraft_type", "callsign"}]
        r == initialize_flight_parameters(s1, d)
    IN  IF r.exc # "none" THEN r
        ELSE [exc |-> "none",
              self |-> [r.self EXCEPT
                          !.waypoints = <<>>,
                          !.current_waypoint_index = 0,
                          !.emergency_state = FALSE,
                          !.conflict_state = FALSE,
                          !.squawk = "1200",
                          !.attrs = @ \cup {"waypoints", "current_waypoint_index",
                                            "emergency_state", "conflict_state",
                                            "squawk"}]]

---------------------------------------------------------------------------
(* class ADSBSimulator *)

\* An emergency sampling that also draws for the aircraft already in
\* emergency.
trigger_random_emergencies_again(fleet, emergency_freq, draws) ==
    [i \in DOMAIN fleet |->
        IF draws[i].random < emergency_freq
        THEN trigger_emergency(fleet[i], draws[i].choice)
        ELSE fleet[i]]

\* ADSBSimulator._trigger_random_emergencies over the fleet: draws[i] holds
\* the random.random() (in thousandths) and the random.choice made for
\* aircraft i, which are drawn only for an aircraft not in emergency.
trigger_random_emergencies(fleet, emergency_freq, draws) ==
    [i \in DOMAIN fleet |->
        IF ~fleet[i].emergency_state /\ draws[i].random < emergency_freq
        THEN trigger_emergency(fleet[i], draws[i].choice)
        ELSE fleet[i]]

\* json.dumps of a str is the text between double quotes, of an int its
\* digits; a JSON text is modelled as the sequence of its tokens.
json_dumps_str(text) == <<"\"", text, "\"">>
json_dumps_int(n) == <<n>>

\* ADSBMessage.to_json: json.dumps(asdict(self)), the members in the order
\* of the dataclass fields.
to_json(message) ==
    << <<"icao_address", json_dumps_str(message.icao_address)>>,
       <<"callsign", json_dumps_str(message.callsign)>>,
       <<"latitude", json_dumps_int(message.latitude)>>,
       <<"longitude", json_dumps_int(message.longitude)>>,
       <<"altitude", json_dumps_int(message.altitude)>>,
       <<"ground_speed", json_dumps_int(message.ground_speed)>>,
       <<"heading", json_dumps_int(message.heading)>>,
       <<"timestamp", json_dumps_str(message.timestamp)>>,
       <<"squawk", json_dumps_str(message.squawk)>>,
       <<"aircraft_type", json_dumps_str(message.aircraft_type)>> >>

\* json.loads(value)[name], as the tests read a published value back.
json_loads_member(value, name) ==
    LET k == CHOOSE k \in DOMAIN value : value[k][1] = name
        token == value[k][2]
    IN  IF Len(token) = 3 THEN token[2] ELSE token[1]

\* bool(self.kafka_producer): None is false; a Producer defines __len__ (the
\* number of messages and requests waiting in its queue), so its truth value
\* is whether that queue is non-empty.  producer_len is that length.
producer_truth(producer, producer_len) ==
    producer # "None" /\ producer_len # 0

\* _publish_message that keys the record with the aircraft type.
publish_message_type_key(self, message, producer_len, outcome) ==
    IF ~producer_truth(self.kafka_producer, producer_len)
    THEN [self |-> self, calls |-> <<>>, exc |-> "none"]
    ELSE LET call == [topic |-> self.config.topic,
                      key |-> message.aircraft_type,
                      value |-> to_json(message),
                      outcome |-> outcome]
         IN  IF outcome = "returned"
             THEN [self |-> [self EXCEPT !.messages_sent = @ + 1],
                   calls |-> <<call>>, exc |-> "none"]
             ELSE [self |-> self, calls |-> <<call>>, exc |-> "none"]

\* _publish_message that counts the message before handing it to produce.
publish_message_counts_first(self, message, producer_len, outcome) ==
    IF ~producer_truth(self.kafka_producer, producer_len)
    THEN [self |-> self, calls |-> <<>>, exc |-> "none"]
    ELSE [self |-> [self EXCEPT !.messages_sent = @ + 1],
          calls |-> << [topic |-> self.config.topic,
                        key |-> message.icao_address,
                        value |-> to_json(message),
                        outcome |-> outcome] >>,
          exc |-> "none"]

\* _publish_message without the try statement: an exception of produce
\* leaves the method.
publish_message_propagates(self, message, producer_len, outcome) ==
    IF ~producer_truth(self.kafka_producer, producer_len)
    THEN [self |-> self, calls |-> <<>>, exc |-> "none"]
    ELSE LET call == [topic |-> self.config.topic,
                      key |-> message.icao_address,
                      value |-> to_json(message),
                      outcome |-> outcome]
         IN  IF outcome = "returned"
             THEN [self |-> [self EXCEPT !.messages_sent = @ + 1],
                   calls |-> <<call>>, exc |-> "none"]
             ELSE [self |-> self, calls |-> <<call>>, exc |-> "Exception"]

\* ADSBSimulator._publish_message: the simulator after the call and the
\* produce calls it made.  outcome is what produce did: "returned", or
\* "raised" (an Exception, caught and logged by the except clause).
publish_message(self, message, producer_len, outcome) ==
    IF ~producer_truth(self.kafka_producer, producer_len)
    THEN [self |-> self, calls |-> <<>>, exc |-> "none"]
    ELSE LET topic == self.config.topic
             key == message.icao_address
             value == to_json(message)
             call == [topic |-> topic, key |-> key, value |-> value,
                      outcome |-> outcome]
         IN  IF outcome = "returned"
             THEN [self |-> [self EXCEPT !.messages_sent = @ + 1],
                   calls |-> <<call>>, exc |-> "none"]
             ELSE [self |-> self, calls |-> <<call>>, exc |-> "none"]

\* The separation test of _check_separation_conflicts for one pair:
\* 5 NM horizontal, 1000 ft vertical.
separation_lost(aircraft1, aircraft2) ==
    LET pos1 == Point(aircraft1.latitude, aircraft1.longitude)
        pos2 == Point(aircraft2.latitude, aircraft2.longitude)
        horizontal_distance == geodesic(pos1, pos2)
        vertical_separation == Abs(aircraft1.altitude - aircraft2.altitude)
    IN  NauticalLess(horizontal_distance, 5) /\ vertical_separation < Deg(1000)

\* The first loop of _check_separation_conflicts: conflict_pairs, built in
\* the order of the two nested loops (i, then j from i + 1).
RECURSIVE conflict_pairs(_, _, _)
conflict_pairs(fleet, i, j) ==
    IF i > Len(fleet) THEN <<>>
    ELSE IF j > Len(fleet) THEN conflict_pairs(fleet, i + 1, i + 2)
    ELSE (IF separation_lost(fleet[i], fleet[j]) THEN <<(<<i, j>>)>> ELSE <<>>)
         \o conflict_pairs(fleet, i, j + 1)

\* The last loop: both aircraft of each pair are flagged.
RECURSIVE flag_pairs(_, _, _)
flag_pairs(fleet, pairs, k) ==
    IF k > Len(pairs) THEN fleet
    ELSE flag_pairs([fleet EXCEPT
                        ![pairs[k][1]] = set_conflict_state(@, TRUE),
                        ![pairs[k][2]] = set_conflict_state(@, TRUE)],
                    pairs, k + 1)

\* _check_separation_conflicts that does not clear the flags first.
check_separation_no_clear(fleet) ==
    LET pairs == conflict_pairs(fleet, 1, 2)
    IN  [fleet |-> flag_pairs(fleet, pairs, 1), ret |-> Len(pairs)]

\* _check_separation_conflicts that visits every ordered pair (j from 0).
check_separation_ordered_pairs(fleet) ==
    LET pairs == conflict_pairs(fleet, 1, 2)
        cleared == [i \in DOMAIN fleet |-> set_conflict_state(fleet[i], FALSE)]
    IN  [fleet |-> flag_pairs(cleared, pairs, 1), ret |-> 2 * Len(pairs)]

\* ADSBSimulator._check_separation_conflicts: the fleet after the call and
\* the value returned.
check_separation_conflicts(fleet) ==
    LET pairs == conflict_pairs(fleet, 1, 2)
        cleared == [i \in DOMAIN fleet |-> set_conflict_state(fleet[i], FALSE)]
    IN  [fleet |-> flag_pairs(cleared, pairs, 1), ret |-> Len(pairs)]

---------------------------------------------------------------------------
(* Inputs: what the calls draw from the random module and the clock.        *)

\* One leg of a flight plan: random.uniform(185, 555) km at
\* random.uniform(0, 360) degrees.
LegChoices ==
    {[distance_km |-> 185, bearing |-> 0],
     [distance_km |-> 555, bearing |-> Deg(90)]}

\* The draws of one _generate_flight_plan call: random.randint(3, 5) legs,
\* here all with the same draw.
Plans == UNION {[1..n -> {leg}] : n \in 3..5, leg \in LegChoices}

\* delta_time > 0, in grid units of a second: 1/8 s and 1 s.
DeltaTimes == {Scale \div 8, Scale}

\* The draws of _add_realistic_variations: heading in [-0.5, 0.5), speed in
\* [-2, 2), altitude in [-50, 50), at the ends of the ranges and near zero.
Noises ==
    {[heading |-> h, speed |-> v, altitude |-> a] :
        h \in {-(Scale \div 2), -1, (Scale \div 2) - 1},
        v \in {-2 * Scale},
        a \in {-50 * Scale}}
    \cup
    {[heading |-> 0, speed |-> 2 * Scale - 1, altitude |-> 50 * Scale - 1]}

---------------------------------------------------------------------------
(* The Aircraft objects the methods are analysed on.  Aircraft(...) raises  *)
(* on every call (see Construct), so the objects are given attribute by     *)
(* attribute, as the unit tests assign them: every attribute within the     *)
(* range the class keeps it in, the targets anywhere.                       *)

\* A flight plan of three waypoints drawn from the origin.
TestPlan ==
    plan_waypoints(Point(0, 0),
                   [i \in 1..3 |-> [distance_km |-> 185, bearing |-> Deg(90)]], 1)

TestObject(icao, type, pos, index, heading, alt, target_alt, gs, target_gs) ==
    [attrs |-> AllAttrs,
     icao_address |-> icao,
     aircraft_type |-> type,
     callsign |-> <<"UAL", 1000>>,
     latitude |-> pos.latitude,
     longitude |-> pos.longitude,
     altitude |-> alt,
     ground_speed |-> gs,
     max_speed |-> Deg(IF type = "jet" THEN JetMaxSpeed ELSE PropMaxSpeed),
     min_speed |-> Deg(IF type = "jet" THEN JetMinSpeed ELSE PropMinSpeed),
     climb_rate |-> Deg(1500),
     heading |-> heading,
     target_altitude |-> target_alt,
     target_speed |-> target_gs,
     target_heading |-> heading,
     waypoints |-> TestPlan,
     current_waypoint_index |-> index,
     emergency_state |-> FALSE,
     conflict_state |-> FALSE,
     squawk |-> "1200"]

\* Positions: the origin (far from every waypoint) and each waypoint's own.
OnWaypoint(k) == Point(TestPlan[k].latitude, TestPlan[k].longitude)

\* Where an object is in its plan: far from its first waypoint, on its
\* first waypoint, on its last waypoint.
PlanPlaces ==
    {[pos |-> Point(0, 0), index |-> 0],
     [pos |-> OnWaypoint(1), index |-> 0],
     [pos |-> OnWaypoint(3), index |-> 2]}

\* Altitude and target altitude (ft): at the floor heading below it, at the
\* ceiling heading above it, and in cruise next to the target.
AltitudeCases ==
    {[alt |-> Deg(MinAltitude) + 1, target |-> 0],
     [alt |-> Deg(MaxAltitude) - 1, target |-> Deg(70000)],
     [alt |-> Deg(35000), target |-> Deg(35010)]}

\* Ground speed and target speed as offsets (kt) from min_speed and max_speed.
SpeedCases(lo, hi) ==
    {[gs |-> lo, target |-> 0], [gs |-> hi, target |-> Deg(1000)]}

\* Objects at the edges of the altitude and speed envelopes, with targets
\* beyond them.
KinematicObjects ==
    UNION {
      {TestObject("ABC123", type, place.pos, place.index, heading,
                  a.alt, a.target, v.gs, v.target) :
          place \in PlanPlaces,
          heading \in {0, Deg(90), Deg(360) - 8},
          a \in AltitudeCases,
          v \in SpeedCases(
                   Deg(IF type = "jet" THEN JetMinSpeed ELSE PropMinSpeed),
                   Deg(IF type = "jet" THEN JetMaxSpeed ELSE PropMaxSpeed))}
      : type \in {"jet", "prop"}}

NoCall == [op |-> "none", i |-> 0]

\* No call of _normalize_heading_difference in progress.
NoFrame == [pc |-> "none", diff |-> 0, arg |-> 0, heading |-> -1,
            target_heading |-> -1]

\* The configuration read by the simulator; frequencies and random.random()
\* draws are in thousandths.
DefaultConfig ==
    [num_aircraft |-> 75, emergency_frequency |-> 1, topic |-> "adsb_messages"]

\* The configuration of tests/test_kafka_integration.py.
TestConfig ==
    [num_aircraft |-> 5, emergency_frequency |-> 0, topic |-> "test_adsb_messages"]

\* The keys the code reads from the configuration.
AllConfigKeys ==
    {"simulation.num_aircraft", "simulation.message_interval_min",
     "simulation.message_interval_max", "simulation.emergency_frequency",
     "kafka.bootstrap_servers", "kafka.topic", "aircraft_types.jet_ratio"}

SimInit ==
    [config |-> DefaultConfig, config_keys |-> AllConfigKeys,
     kafka_producer |-> "None", messages_sent |-> 0, running |-> FALSE]

\* The process before main() is entered: nothing flushed, nothing logged.
NoProcess ==
    [pc |-> "none", exit_code |-> "none", index |-> 0, pass |-> 0,
     advanced |-> {}, flushes |-> <<>>, final_stats |-> 0, errors |-> 0,
     signalled |-> FALSE, interrupted_at |-> "none", done |-> {},
     raised |-> 0, loop_exception |-> "none", pending |-> "none",
     order |-> <<>>]

\* A simulator whose configuration asks for no aircraft.
EmptyFleetConfig ==
    [num_aircraft |-> 0, emergency_frequency |-> 1, topic |-> "adsb_messages"]

\* The keys one of which a configuration file may lack.
OptionalKeys ==
    {"simulation.emergency_frequency", "kafka.topic", "aircraft_types.jet_ratio"}

\* The configuration files the simulator may be started on: state says
\* whether open and yaml.safe_load succeed, keys which keys the document
\* holds, values what they hold.
ConfigFiles ==
    {[state |-> st, keys |-> {}, values |-> DefaultConfig] :
         st \in {"missing", "unparsable"}}
    \cup {[state |-> "ok", keys |-> AllConfigKeys \ m, values |-> v] :
            m \in {{}} \cup {{k} : k \in OptionalKeys},
            v \in {TestConfig, EmptyFleetConfig}}

\* ADSBSimulator._load_config: the document, or on any exception the
\* default configuration.
load_config(file) ==
    IF file.state = "ok"
    THEN [config |-> file.values, config_keys |-> file.keys, errors |-> 0]
    ELSE [config |-> DefaultConfig, config_keys |-> AllConfigKeys, errors |-> 1]

\* What the Kafka client library does at startup: whether Producer(...)
\* and the admin client calls (AdminClient(...), create_topics) return or
\* raise, and what the future of the topic creation holds.
KafkaOutcomes ==
    [producer : {"returned", "raised"},
     admin : {"returned", "raised"},
     create : {"created", "already exists", "failed"}]

\* ADSBSimulator._setup_kafka: every statement is inside one try whose
\* handler logs and sets kafka_producer to None; only the result of the
\* creation future has a handler of its own.
setup_kafka(self, kafka) ==
    IF "kafka.bootstrap_servers" \notin self.config_keys
    THEN [self |-> [self EXCEPT !.kafka_producer = "None"], errors |-> 1]
    ELSE IF kafka.producer = "raised"
    THEN [self |-> [self EXCEPT !.kafka_producer = "None"], errors |-> 1]
    ELSE LET s1 == [self EXCEPT !.kafka_producer = "Producer"]
         IN  IF kafka.admin = "raised" \/ "kafka.topic" \notin s1.config_keys
             THEN [self |-> [s1 EXCEPT !.kafka_producer = "None"], errors |-> 1]
             ELSE IF kafka.create \in {"created", "already exists"}
             THEN [self |-> s1, errors |-> 0]
             ELSE [self |-> s1, errors |-> 1]

\* The loop of _generate_aircraft_fleet from aircraft number i on: each
\* Aircraft(...) is appended when its constructor returns; an exception
\* leaves the loop and the method.
RECURSIVE fleet_loop(_, _, _, _)
fleet_loop(fleet, i, num_aircraft, d) ==
    IF i >= num_aircraft THEN [exc |-> "none", fleet |-> fleet]
    ELSE LET r == aircraft_init(d.icao_address[i % 2], d.aircraft_type, d.ctor)
         IN  IF r.exc # "none" THEN [exc |-> r.exc, fleet |-> fleet]
             ELSE fleet_loop(Append(fleet, r.self), i + 1, num_aircraft, d)

\* ADSBSimulator._generate_aircraft_fleet
generate_aircraft_fleet(self, d) ==
    IF "simulation.num_aircraft" \notin self.config_keys
       \/ "aircraft_types.jet_ratio" \notin self.config_keys
    THEN [exc |-> "KeyError", fleet |-> <<>>]
    ELSE fleet_loop(<<>>, 0, self.config.num_aircraft, d)

\* ADSBSimulator.__init__(config_path): the simulator, its fleet, the
\* number of error lines logged, and the exception that left it, if any.
simulator_init(file, kafka, d) ==
    LET c == load_config(file)
        s0 == [config |-> c.config, config_keys |-> c.config_keys,
               kafka_producer |-> "None", messages_sent |-> 0,
               running |-> FALSE]
        k == setup_kafka(s0, kafka)
        f == generate_aircraft_fleet(k.self, d)
    IN  [exc |-> f.exc, self |-> k.self, fleet |-> f.fleet,
         errors |-> c.errors + k.errors]

\* ADSBSimulator.stop: the latch, the flush when the producer is true,
\* the final statistics line.
\* stop that does not flush the producer.
stop_no_flush(self, process, producer_len) ==
    [self |-> [self EXCEPT !.running = FALSE],
     process |-> [process EXCEPT !.final_stats = @ + 1]]

stop(self, process, producer_len) ==
    [self |-> [self EXCEPT !.running = FALSE],
     process |-> [process EXCEPT
                    !.flushes = IF producer_truth(self.kafka_producer,
                                                  producer_len)
                                THEN Append(@, 10) ELSE @,
                    !.final_stats = @ + 1]]

---------------------------------------------------------------------------
(* Operations *)

\* aircraft[i].update_position(delta_time)
UpdatePosition(i, delta_time, noise) ==
    /\ steps < MaxSteps
    /\ i \in 1..Len(aircraft)
    /\ LET self == aircraft[i]
           regen == RegeneratesPlan(self)
       IN  \E legs \in IF regen THEN Plans ELSE {<<>>} :
               /\ aircraft' = [aircraft EXCEPT
                                 ![i] = update_position(self, delta_time, legs, noise)]
               /\ last' = [op |-> "update_position", i |-> i,
                           delta_time |-> delta_time, noise |-> noise,
                           regenerated |-> regen,
                           skipped |-> (self.waypoints = <<>>),
                           before |-> self,
                           tracked |-> track_waypoint(self, legs),
                           slewed |-> update_heading(track_waypoint(self, legs),
                                                     delta_time).heading]
    /\ steps' = steps + 1
    /\ UNCHANGED <<sim, bus, ctor, proc, frame>>

\* Aircraft(icao_address, aircraft_type), with the draws d.  The caller
\* gets the object only when the constructor returns.
Construct(icao_address, aircraft_type, d) ==
    /\ ctor.outcome = "none"
    /\ LET r == aircraft_init(icao_address, aircraft_type, d)
       IN  /\ ctor' = [outcome |-> IF r.exc = "none" THEN "returned" ELSE r.exc,
                       self |-> r.self]
           /\ aircraft' = IF r.exc = "none" THEN Append(aircraft, r.self)
                          ELSE aircraft
    /\ last' = [op |-> "Aircraft", i |-> 0, draws |-> d]
    /\ steps' = steps + 1
    /\ UNCHANGED <<sim, bus, proc, frame>>

\* The draws of one constructor call for an aircraft type.
CtorDraws(type) ==
    [callsign : {<<"UAL", 1000>>, <<"B6", 9999>>},
     latitude : {-60000, 60000},
     longitude : {-180000, 180000},
     altitude : IF type = "jet" THEN {Deg(25000), Deg(42000)}
                ELSE {Deg(8000), Deg(18000)},
     ground_speed : IF type = "jet" THEN {Deg(400), Deg(550)}
                    ELSE {Deg(150), Deg(220)},
     climb_rate : IF type = "jet" THEN {Deg(1500)} ELSE {Deg(500)},
     heading : {0, Deg(359)},
     legs : Plans]

---------------------------------------------------------------------------
(* Specifications *)

\* The flight dynamics of one aircraft.
Init ==
    /\ aircraft \in {<<a>> : a \in KinematicObjects}
    /\ sim = SimInit
    /\ bus = <<>>
    /\ ctor = [outcome |-> "none", self |-> NewObject]
    /\ proc = NoProcess
    /\ last = NoCall
    /\ frame = NoFrame
    /\ steps = 0

Next ==
    \E delta_time \in DeltaTimes, noise \in Noises :
        UpdatePosition(1, delta_time, noise)

Spec == Init /\ [][Next]_vars

\* The constructor, called by a program that holds no aircraft yet.
InitCtor ==
    /\ aircraft = <<>>
    /\ sim = SimInit
    /\ bus = <<>>
    /\ ctor = [outcome |-> "none", self |-> NewObject]
    /\ proc = NoProcess
    /\ last = NoCall
    /\ frame = NoFrame
    /\ steps = 0

NextCtor ==
    \E icao_address \in {"ABC123", "DEF456"}, type \in {"jet", "prop"} :
        \E d \in CtorDraws(type) : Construct(icao_address, type, d)

SpecCtor == InitCtor /\ [][NextCtor]_vars

\* Two jets in cruise, for the operations on the flags.
CruiseObject(icao, pos, alt) ==
    TestObject(icao, "jet", pos, 0, Deg(90), alt, alt, Deg(450), Deg(450))

EmergencyTypes == {"general", "communication", "hijack", "bogus"}

\* aircraft[i].trigger_emergency(emergency_type)
TriggerEmergency(i, emergency_type) ==
    /\ steps < MaxCalls
    /\ i \in 1..Len(aircraft)
    /\ aircraft' = [aircraft EXCEPT ![i] = trigger_emergency(@, emergency_type)]
    /\ last' = [op |-> "trigger_emergency", i |-> i, kind |-> emergency_type,
                prev_squawk |-> aircraft[i].squawk]
    /\ steps' = steps + 1
    /\ UNCHANGED <<sim, bus, ctor, proc, frame>>

\* aircraft[i].clear_emergency()
ClearEmergency(i) ==
    /\ steps < MaxCalls
    /\ i \in 1..Len(aircraft)
    /\ aircraft' = [aircraft EXCEPT ![i] = clear_emergency(@)]
    /\ last' = [op |-> "clear_emergency", i |-> i,
                prev_squawk |-> aircraft[i].squawk]
    /\ steps' = steps + 1
    /\ UNCHANGED <<sim, bus, ctor, proc, frame>>

\* The draws of _trigger_random_emergencies for one aircraft.
EmergencyDraws ==
    [random : {0, 999}, choice : {"general", "communication", "hijack"}]

\* self._trigger_random_emergencies()
TriggerRandomEmergencies ==
    /\ steps < MaxCalls
    /\ \E draws \in [1..Len(aircraft) -> EmergencyDraws] :
           /\ aircraft' = trigger_random_emergencies(
                              aircraft, sim.config.emergency_frequency, draws)
           /\ last' = [op |-> "trigger_random_emergencies", i |-> 0,
                       before |-> [i \in 1..Len(aircraft) |->
                                      aircraft[i].emergency_state]]
    /\ steps' = steps + 1
    /\ UNCHANGED <<sim, bus, ctor, proc, frame>>

\* aircraft[i].update_position(1.0) with a fixed noise (+40 ft of altitude),
\* bounded like the other calls of the flag specifications.
Advance(i) ==
    /\ steps < MaxCalls
    /\ UpdatePosition(i, Scale,
                      [heading |-> 0, speed |-> Scale, altitude |-> 40 * Scale])

\* aircraft[i].set_conflict_state(in_conflict)
SetConflictState(i, in_conflict) ==
    /\ steps < MaxCalls
    /\ i \in 1..Len(aircraft)
    /\ aircraft' = [aircraft EXCEPT ![i] = set_conflict_state(@, in_conflict)]
    /\ last' = [op |-> "set_conflict_state", i |-> i, in_conflict |-> in_conflict]
    /\ steps' = steps + 1
    /\ UNCHANGED <<sim, bus, ctor, proc, frame>>

\* self._check_separation_conflicts()
CheckSeparationConflicts ==
    /\ steps < MaxCalls
    /\ LET r == check_separation_conflicts(aircraft)
       IN  /\ aircraft' = r.fleet
           /\ last' = [op |-> "check_separation_conflicts", i |-> 0,
                       ret |-> r.ret,
                       before |-> [i \in 1..Len(aircraft) |->
                                      aircraft[i].conflict_state]]
    /\ steps' = steps + 1
    /\ UNCHANGED <<sim, bus, ctor, proc, frame>>

\* The emergency flag and the squawk code of two aircraft, under the
\* direct calls, the fleet sampling and update_position.
InitEmergency ==
    /\ aircraft = <<CruiseObject("ABC123", Point(0, 0), Deg(35000)),
                    CruiseObject("DEF456", Point(0, 10), Deg(35000))>>
    /\ sim \in {[SimInit EXCEPT !.config = c] : c \in {DefaultConfig, TestConfig}}
    /\ bus = <<>>
    /\ ctor = [outcome |-> "none", self |-> NewObject]
    /\ proc = NoProcess
    /\ last = NoCall
    /\ frame = NoFrame
    /\ steps = 0

NextEmergency ==
    \/ \E i \in 1..Len(aircraft), k \in EmergencyTypes : TriggerEmergency(i, k)
    \/ \E i \in 1..Len(aircraft) : ClearEmergency(i)
    \/ TriggerRandomEmergencies
    \/ \E i \in 1..Len(aircraft) : Advance(i)

SpecEmergency == InitEmergency /\ [][NextEmergency]_vars

\* One pass of the loop body of run for aircraft[i], after its
\* update_position: message = aircraft.generate_message();
\* self._publish_message(message).  The clock reads steps.
PublishMessage(i, producer_len, outcome) ==
    /\ steps < MaxCalls
    /\ i \in 1..Len(aircraft)
    /\ LET message == generate_message(aircraft[i], steps)
           r == publish_message(sim, message, producer_len, outcome)
       IN  /\ sim' = r.self
           /\ bus' = bus \o r.calls
           /\ last' = [op |-> "publish_message", i |-> i, message |-> message,
                       produced |-> r.calls # <<>>,
                       prev_sent |-> sim.messages_sent]
    /\ steps' = steps + 1
    /\ UNCHANGED <<aircraft, ctor, proc, frame>>

ProduceOutcomes == {"returned", "raised"}

\* Two jets and a simulator just constructed (messages_sent = 0), with a
\* producer or in null mode, under either configuration.
InitPublish ==
    /\ aircraft = <<CruiseObject("ABC123", Point(0, 0), Deg(35000)),
                    CruiseObject("DEF456", Point(0, 10), Deg(35000))>>
    /\ sim \in {[SimInit EXCEPT !.config = c, !.kafka_producer = p] :
                   c \in {DefaultConfig, TestConfig},
                   p \in {"None", "Producer"}}
    /\ bus = <<>>
    /\ ctor = [outcome |-> "none", self |-> NewObject]
    /\ proc = NoProcess
    /\ last = NoCall
    /\ frame = NoFrame
    /\ steps = 0

NextPublish ==
    \/ \E i \in 1..Len(aircraft), producer_len \in {0, 1},
          outcome \in ProduceOutcomes :
            PublishMessage(i, producer_len, outcome)
    \/ \E i \in 1..Len(aircraft) : Advance(i)

SpecPublish == InitPublish /\ [][NextPublish]_vars

\* Three jets: the first at the origin at 35000 ft, the others 0.6 nm,
\* 4.97 nm or 120 nm east of it, level with it, 990 ft, 1500 ft or 1980 ft
\* above it.
InitFleet ==
    /\ aircraft \in
         {<<CruiseObject("ABC123", Point(0, 0), Deg(35000)),
            CruiseObject("DEF456", p2, a2),
            CruiseObject("ABC123", p3, a3)>> :
             p2 \in {Point(0, 10), Point(0, 83), Point(0, 2000)},
             a2 \in {Deg(35000), Deg(35990), Deg(36500)},
             p3 \in {Point(0, 10), Point(0, 2000)},
             a3 \in {Deg(35000), Deg(36980)}}
    /\ sim = SimInit
    /\ bus = <<>>
    /\ ctor = [outcome |-> "none", self |-> NewObject]
    /\ proc = NoProcess
    /\ last = NoCall
    /\ frame = NoFrame
    /\ steps = 0

NextFleet ==
    \/ CheckSeparationConflicts
    \/ \E i \in 1..Len(aircraft) : Advance(i)
    \/ \E i \in 1..Len(aircraft), in_conflict \in BOOLEAN :
           SetConflictState(i, in_conflict)

SpecFleet == InitFleet /\ [][NextFleet]_vars

---------------------------------------------------------------------------
(* The process: main(), ADSBSimulator.__init__, run, the signal handler *)

\* The produce calls of one publish, recorded in call order.
produce_log_reversed(log, calls) == calls \o log

produce_log(log, calls) == log \o calls

\* The random draws of _generate_aircraft_fleet and of the constructors it
\* calls: two addresses, one type, one set of constructor draws.
FleetDraws ==
    {[icao_address |-> (0 :> "ABC123" @@ 1 :> "DEF456"),
      aircraft_type |-> t, ctor |-> c] :
        t \in {"jet", "prop"},
        c \in {d \in CtorDraws("jet") \cup CtorDraws("prop") :
                  /\ d.callsign = <<"UAL", 1000>>
                  /\ d.latitude = 60000 /\ d.longitude = 180000
                  /\ d.altitude \in {Deg(25000), Deg(8000)}
                  /\ d.ground_speed \in {Deg(400), Deg(150)}
                  /\ d.heading = 0
                  /\ Len(d.legs) = 3 /\ d.legs[1].bearing = 0}}

\* main(): simulator = ADSBSimulator(args.config); an exception is logged
\* and the process exits with code 1.
Startup(file, kafka, d) ==
    /\ proc.pc = "main"
    /\ LET r == simulator_init(file, kafka, d)
       IN  /\ sim' = IF r.exc = "none" THEN r.self ELSE sim
           /\ aircraft' = IF r.exc = "none" THEN r.fleet ELSE aircraft
           /\ proc' = IF r.exc = "none"
                      THEN [proc EXCEPT !.pc = "run", !.errors = @ + r.errors]
                      ELSE [proc EXCEPT !.pc = "exited", !.exit_code = 1,
                                        !.errors = @ + r.errors + 1]
           /\ last' = [op |-> "ADSBSimulator", i |-> 0, file |-> file,
                       kafka |-> kafka, exc |-> r.exc,
                       producer |-> r.self.kafka_producer]
    /\ steps' = steps + 1
    /\ UNCHANGED <<bus, ctor, frame>>

\* run(): self.running = True, then the try statement is entered.
RunEnter ==
    /\ proc.pc = "run"
    /\ sim' = [sim EXCEPT !.running = TRUE]
    /\ proc' = [proc EXCEPT !.pc = "while"]
    /\ last' = [op |-> "run", i |-> 0]
    /\ steps' = steps + 1
    /\ UNCHANGED <<aircraft, bus, ctor, frame>>

\* while self.running: a new pass starts, or the loop ends and the finally
\* clause is reached with no exception pending.
LoopHead ==
    /\ proc.pc = "while"
    /\ sim.running => proc.pass < MaxPasses
    /\ proc' = IF sim.running
               THEN [proc EXCEPT !.pc = "aircraft", !.index = 1,
                                 !.pass = @ + 1, !.advanced = {},
                                 !.done = {}, !.raised = 0,
                                 !.order = <<>>]
               ELSE [proc EXCEPT !.pc = "finally"]
    /\ last' = [op |-> "while", i |-> 0]
    /\ steps' = steps + 1
    /\ UNCHANGED <<aircraft, sim, bus, ctor, frame>>

\* The calls of one pass of the loop, as proc.order logs them: the call and
\* the position in the fleet of the aircraft it is made for (0: for none).
Call(call, i) == [call |-> call, i |-> i]

\* A body of the for loop that updates the aircraft a second time after
\* the report.
loop_body_advances_twice(self, i, legs, now, keyerror, due) ==
    LET noise == [heading |-> 0, speed |-> Scale, altitude |-> 40 * Scale]
        updated == update_position(self, Scale \div 8, legs, noise)
    IN  [self |-> update_position(updated, Scale \div 8, legs, noise),
         message |-> generate_message(updated, now),
         calls |-> <<Call("advance", i)>>
                   \o (IF keyerror THEN <<>>
                       ELSE <<Call("decide", i)>>
                                \o (IF due
                                    THEN <<Call("report", i), Call("publish", i)>>
                                    ELSE <<>>))
                   \o <<Call("advance", i)>>]

\* A body of the for loop that decides, reports and publishes before it
\* updates the aircraft.
loop_body_reports_first(self, i, legs, now, keyerror, due) ==
    [self |-> update_position(self, Scale \div 8, legs,
                  [heading |-> 0, speed |-> Scale, altitude |-> 40 * Scale]),
     message |-> generate_message(self, now),
     calls |-> (IF keyerror THEN <<>>
                ELSE <<Call("decide", i)>>
                         \o (IF due THEN <<Call("report", i), Call("publish", i)>>
                             ELSE <<>>))
               \o <<Call("advance", i)>>]

\* The body of the for loop of run, lines 518-528, for the aircraft at
\* position i: update_position, then the two interval look-ups and the
\* draw that decides whether a report is due, then generate_message and
\* _publish_message.  A look-up that raises ends the body after the update.
loop_body(self, i, legs, now, keyerror, due) ==
    LET updated == update_position(self, Scale \div 8, legs,
                       [heading |-> 0, speed |-> Scale,
                        altitude |-> 40 * Scale])
    IN  [self |-> updated,
         message |-> generate_message(updated, now),
         calls |-> <<Call("advance", i)>>
                   \o (IF keyerror THEN <<>>
                       ELSE <<Call("decide", i)>>
                                \o (IF due
                                    THEN <<Call("report", i), Call("publish", i)>>
                                    ELSE <<>>))]

\* The body of the for loop of run for the next aircraft: update_position,
\* the two interval look-ups, the draw that decides whether a report is
\* due, and then generate_message and _publish_message.  The clock reads
\* steps.
AircraftStep(due, producer_len, outcome) ==
    /\ proc.pc = "aircraft"
    /\ proc.index <= Len(aircraft)
    /\ LET i == proc.index
           regen == RegeneratesPlan(aircraft[i])
       IN  \E legs \in IF regen THEN Plans ELSE {<<>>} :
             LET keyerror ==
                     "simulation.message_interval_min" \notin sim.config_keys
                     \/ "simulation.message_interval_max" \notin sim.config_keys
                 b == loop_body(aircraft[i], i, legs, steps, keyerror, due)
                 self == b.self
                 message == b.message
                 r == IF due /\ ~keyerror
                      THEN publish_message(sim, message, producer_len, outcome)
                      ELSE [self |-> sim, calls |-> <<>>,
                            exc |-> IF keyerror THEN "KeyError" ELSE "none"]
             IN  /\ aircraft' = [aircraft EXCEPT ![i] = self]
                 /\ sim' = r.self
                 /\ bus' = produce_log(bus, r.calls)
                 /\ proc' = IF r.exc # "none"
                            THEN [proc EXCEPT !.pc = "except",
                                              !.advanced = @ \cup {i},
                                              !.loop_exception = r.exc,
                                              !.order = @ \o b.calls]
                            ELSE [proc EXCEPT
                                    !.index = i + 1,
                                    !.advanced = @ \cup {i},
                                    !.order = @ \o b.calls,
                                    !.raised =
                                        IF r.calls # <<>>
                                           /\ r.calls[1].outcome = "raised"
                                        THEN i ELSE @]
                 /\ last' = [op |-> "run_step", i |-> i, due |-> due,
                             message |-> message,
                             produced |-> r.calls # <<>>,
                             outcome |-> IF r.calls # <<>>
                                         THEN r.calls[1].outcome ELSE "none",
                             prev_sent |-> sim.messages_sent,
                             prev_calls |-> Len(bus)]
    /\ steps' = steps + 1
    /\ UNCHANGED <<ctor, frame>>

\* A pass that goes from the last aircraft to the emergency sampling
\* without the separation scan.
ScanSkipped ==
    /\ proc.pc = "aircraft"
    /\ proc.index > Len(aircraft)
    /\ last' = [op |-> "run_scan", i |-> 0, ret |-> 0]
    /\ proc' = [proc EXCEPT !.pc = "emergencies",
                            !.done = @ \cup {"advance", "scan"}]
    /\ steps' = steps + 1
    /\ UNCHANGED <<aircraft, sim, bus, ctor, frame>>

\* After the last aircraft: self._check_separation_conflicts()
Scan ==
    /\ proc.pc = "aircraft"
    /\ proc.index > Len(aircraft)
    /\ LET r == check_separation_conflicts(aircraft)
       IN  /\ aircraft' = r.fleet
           /\ last' = [op |-> "run_scan", i |-> 0, ret |-> r.ret]
    /\ proc' = [proc EXCEPT !.pc = "emergencies",
                            !.done = @ \cup {"advance", "scan"},
                            !.order = Append(@, Call("scan", 0))]
    /\ steps' = steps + 1
    /\ UNCHANGED <<sim, bus, ctor, frame>>

\* The draws of one emergency sampling of the loop: every aircraft draws
\* alike.
PassDraws ==
    {[random |-> 999, choice |-> "general"], [random |-> 0, choice |-> "hijack"]}

\* self._trigger_random_emergencies(): the look-up of emergency_frequency
\* raises KeyError when the configuration lacks it.
Emergencies(draw) ==
    /\ proc.pc = "emergencies"
    /\ IF "simulation.emergency_frequency" \notin sim.config_keys
       THEN /\ proc' = [proc EXCEPT !.pc = "except",
                                    !.loop_exception = "KeyError",
                                    !.order = Append(@, Call("emergencies", 0))]
            /\ UNCHANGED aircraft
       ELSE /\ aircraft' = trigger_random_emergencies(
                               aircraft, sim.config.emergency_frequency,
                               [i \in 1..Len(aircraft) |-> draw])
            /\ proc' = [proc EXCEPT !.pc = "poll",
                                    !.done = @ \cup {"emergencies"},
                                    !.order = Append(@, Call("emergencies", 0))]
    /\ last' = [op |-> "run_emergencies", i |-> 0]
    /\ steps' = steps + 1
    /\ UNCHANGED <<sim, bus, ctor, frame>>

\* if self.kafka_producer: self.kafka_producer.poll(0); outcome is what
\* poll does.
Poll(producer_len, outcome) ==
    /\ proc.pc = "poll"
    /\ LET pumped == producer_truth(sim.kafka_producer, producer_len)
           order == IF pumped THEN Append(proc.order, Call("poll", 0))
                    ELSE proc.order
       IN  /\ proc' = IF pumped /\ outcome = "raised"
                      THEN [proc EXCEPT !.pc = "except",
                                        !.loop_exception = "KafkaException",
                                        !.order = order]
                      ELSE [proc EXCEPT !.pc = "stats",
                                        !.done = @ \cup {"poll"},
                                        !.order = order]
           /\ last' = [op |-> "run_poll", i |-> 0, pumped |-> pumped]
    /\ steps' = steps + 1
    /\ UNCHANGED <<aircraft, sim, bus, ctor, frame>>

\* self._log_statistics(); time.sleep(0.1): the pass is over.
Stats ==
    /\ proc.pc = "stats"
    /\ proc' = [proc EXCEPT !.pc = "while", !.done = @ \cup {"stats"},
                            !.order = @ \o <<Call("stats", 0), Call("sleep", 0)>>]
    /\ last' = [op |-> "run_stats", i |-> 0]
    /\ steps' = steps + 1
    /\ UNCHANGED <<aircraft, sim, bus, ctor, frame>>

\* except Exception as e: logger.error(...)
HandleException ==
    /\ proc.pc = "except"
    /\ proc' = [proc EXCEPT !.pc = "finally", !.errors = @ + 1]
    /\ last' = [op |-> "except", i |-> 0]
    /\ steps' = steps + 1
    /\ UNCHANGED <<aircraft, sim, bus, ctor, frame>>

\* finally: self.stop().  Then a pending SystemExit(0) ends the process
\* with its code; otherwise run returns to main, main returns, and the
\* process ends with code 0.
Finally(producer_len) ==
    /\ proc.pc = "finally"
    /\ LET r == stop(sim, proc, producer_len)
       IN  /\ sim' = r.self
           /\ proc' = [r.process EXCEPT !.pc = "exited", !.exit_code = 0]
    /\ last' = [op |-> "finally", i |-> 0, producer_len |-> producer_len]
    /\ steps' = steps + 1
    /\ UNCHANGED <<aircraft, bus, ctor, frame>>

\* The positions of the loop of run at which a signal may be delivered.
PassStages == {"aircraft", "emergencies", "poll", "stats"}
LoopStages == {"while"} \cup PassStages

\* SIGINT or SIGTERM delivered while the loop runs: _signal_handler calls
\* self.stop() and sys.exit(0); the SystemExit is raised where the loop
\* was interrupted and is caught by no except clause of run.
Signal(producer_len) ==
    /\ proc.pc \in LoopStages
    /\ LET r == stop(sim, proc, producer_len)
       IN  /\ sim' = r.self
           /\ proc' = [r.process EXCEPT !.pc = "finally",
                                        !.pending = "SystemExit",
                                        !.signalled = TRUE,
                                        !.interrupted_at = proc.pc]
    /\ last' = [op |-> "signal", i |-> 0, producer_len |-> producer_len]
    /\ steps' = steps + 1
    /\ UNCHANGED <<aircraft, bus, ctor, frame>>

\* simulator.stop(), called directly.
StopCall(producer_len) ==
    /\ steps < MaxCalls
    /\ LET r == stop(sim, proc, producer_len)
       IN  /\ sim' = r.self
           /\ proc' = r.process
    /\ last' = [op |-> "stop", i |-> 0, producer_len |-> producer_len]
    /\ steps' = steps + 1
    /\ UNCHANGED <<aircraft, bus, ctor, frame>>

\* The process from the entry of main(): no simulator yet.
InitMain ==
    /\ aircraft = <<>>
    /\ sim = SimInit
    /\ bus = <<>>
    /\ ctor = [outcome |-> "none", self |-> NewObject]
    /\ proc = [NoProcess EXCEPT !.pc = "main"]
    /\ last = NoCall
    /\ frame = NoFrame
    /\ steps = 0

NextMain ==
    \/ \E file \in ConfigFiles, kafka \in KafkaOutcomes, d \in FleetDraws :
           Startup(file, kafka, d)
    \/ RunEnter
    \/ LoopHead
    \/ Scan
    \/ \E draw \in PassDraws : Emergencies(draw)
    \/ \E producer_len \in {0, 1}, outcome \in ProduceOutcomes :
           Poll(producer_len, outcome)
    \/ Stats
    \/ HandleException
    \/ \E producer_len \in {0, 1} : Finally(producer_len)
    \/ \E producer_len \in {0, 1} : Signal(producer_len)

SpecMain == InitMain /\ [][NextMain]_vars

\* The loop of run on a simulator that holds two jets, with a producer or
\* in null mode, with or without the emergency_frequency key.
InitRun ==
    /\ aircraft = <<CruiseObject("ABC123", Point(0, 0), Deg(35000)),
                    CruiseObject("DEF456", Point(0, 10), Deg(35000))>>
    /\ sim \in {[SimInit EXCEPT !.config = TestConfig, !.kafka_producer = p,
                                !.config_keys = AllConfigKeys \ m] :
                   p \in {"None", "Producer"},
                   m \in {{}, {"simulation.emergency_frequency"}}}
    /\ bus = <<>>
    /\ ctor = [outcome |-> "none", self |-> NewObject]
    /\ proc = [NoProcess EXCEPT !.pc = "run"]
    /\ last = NoCall
    /\ frame = NoFrame
    /\ steps = 0

NextRun ==
    \/ RunEnter
    \/ LoopHead
    \/ \E due \in BOOLEAN, producer_len \in {0, 1},
          outcome \in ProduceOutcomes :
            AircraftStep(due, producer_len, outcome)
    \/ Scan
    \/ \E draw \in PassDraws : Emergencies(draw)
    \/ \E producer_len \in {0, 1}, outcome \in ProduceOutcomes :
           Poll(producer_len, outcome)
    \/ Stats
    \/ HandleException
    \/ \E producer_len \in {0, 1} : Finally(producer_len)
    \/ \E producer_len \in {0, 1} : Signal(producer_len)

SpecRun == InitRun /\ [][NextRun]_vars

\* run entered with a fleet whose first aircraft is in a general emergency
\* already, with emergency_frequency 0 or positive.
InitLoop ==
    /\ aircraft = <<trigger_emergency(
                        CruiseObject("ABC123", Point(0, 0), Deg(35000)),
                        "general"),
                    CruiseObject("DEF456", Point(0, 2000), Deg(35000))>>
    /\ sim \in {[SimInit EXCEPT !.config = c, !.kafka_producer = p,
                                !.config_keys = AllConfigKeys] :
                   p \in {"None", "Producer"},
                   c \in {TestConfig, [TestConfig EXCEPT !.emergency_frequency = 1]}}
    /\ bus = <<>>
    /\ ctor = [outcome |-> "none", self |-> NewObject]
    /\ proc = [NoProcess EXCEPT !.pc = "run"]
    /\ last = NoCall
    /\ frame = NoFrame
    /\ steps = 0

SpecLoop == InitLoop /\ [][NextRun]_vars

\* Direct calls of _publish_message and stop on a simulator.
NextShutdown ==
    \/ \E i \in 1..Len(aircraft), producer_len \in {0, 1},
          outcome \in ProduceOutcomes :
            PublishMessage(i, producer_len, outcome)
    \/ \E producer_len \in {0, 1} : StopCall(producer_len)

SpecShutdown == InitPublish /\ [][NextShutdown]_vars

\* A generate_message that writes the normalised heading back to the
\* aircraft and adds the clock to the altitude it reports.
report_call_writes(self, now) ==
    [self |-> [self EXCEPT !.heading = Deg(PyInt(@) % 360)],
     message |-> [generate_message(self, now) EXCEPT !.altitude = @ + now]]

\* A call of generate_message as its caller sees it: the object after the
\* call (the method assigns no attribute) and the ADSBMessage returned.
report_call(self, now) ==
    [self |-> self, message |-> generate_message(self, now)]

\* message = aircraft[i].generate_message(); the clock reads steps.
GenerateMessage(i) ==
    /\ steps < MaxCalls
    /\ i \in 1..Len(aircraft)
    /\ LET r == report_call(aircraft[i], steps)
       IN  /\ aircraft' = [aircraft EXCEPT ![i] = r.self]
           /\ last' = [op |-> "generate_message", i |-> i,
                       message |-> r.message,
                       before |-> aircraft[i],
                       previous |-> IF last.op = "generate_message"
                                    THEN <<last.message>> ELSE <<>>]
    /\ steps' = steps + 1
    /\ UNCHANGED <<sim, bus, ctor, proc, frame>>

\* Reports of one aircraft in flight.
NextReport ==
    \/ \E delta_time \in DeltaTimes, noise \in Noises :
           UpdatePosition(1, delta_time, noise)
    \/ GenerateMessage(1)

SpecReport == Init /\ [][NextReport]_vars

---------------------------------------------------------------------------
(* Aircraft._normalize_heading_difference, statement by statement *)

\* diff -= 360 with half the period.
normalize_decrement_half(diff) == FSub(diff, Deg(180))

\* diff -= 360
normalize_decrement(diff) == FSub(diff, Deg(360))

\* diff += 360
normalize_increment(diff) == FAdd(diff, Deg(360))

\* while diff > 180: diff -= 360
WhileGreater ==
    /\ frame.pc = "while_greater"
    /\ frame' = IF frame.diff > Deg(180)
                THEN [frame EXCEPT !.diff = normalize_decrement(@)]
                ELSE [frame EXCEPT !.pc = "while_less"]
    /\ UNCHANGED <<aircraft, sim, bus, ctor, last, steps, proc>>

\* while diff < -180: diff += 360; then return diff
WhileLess ==
    /\ frame.pc = "while_less"
    /\ frame' = IF frame.diff < -Deg(180)
                THEN [frame EXCEPT !.diff = normalize_increment(@)]
                ELSE [frame EXCEPT !.pc = "return"]
    /\ UNCHANGED <<aircraft, sim, bus, ctor, last, steps, proc>>

\* Headings in [0, 360): the multiples of 45 degrees, and the floats next
\* to 0, 180 and 360.
HeadingGrid ==
    {Deg(45 * k) : k \in 0..7} \cup {1, Deg(180) - 8, Deg(180) + 8, Deg(360) - 8}

\* Arguments that are no difference of two headings: multiples of 90
\* degrees up to three turns, and two floats so large that the float next
\* to them is more than 720 away.
LargeDiffs ==
    {Deg(90 * k) : k \in -12..12} \cup {Deg(2^24), -Deg(2^24)}

\* A call of _normalize_heading_difference: by update_position with
\* target_heading - heading (line 171), or with an argument of its own.
InitNormalize ==
    /\ aircraft = <<>>
    /\ sim = SimInit
    /\ bus = <<>>
    /\ ctor = [outcome |-> "none", self |-> NewObject]
    /\ proc = NoProcess
    /\ last = NoCall
    /\ steps = 0
    /\ frame \in
         {[pc |-> "while_greater", diff |-> FSub(t, h), arg |-> FSub(t, h),
           heading |-> h, target_heading |-> t] :
              h \in HeadingGrid, t \in HeadingGrid}
         \cup {[pc |-> "while_greater", diff |-> x, arg |-> x,
                heading |-> -1, target_heading |-> -1] : x \in LargeDiffs}

NextNormalize == WhileGreater \/ WhileLess

\* The call runs on its own thread of control: a statement that can be
\* executed is executed.
SpecNormalize ==
    InitNormalize /\ [][NextNormalize]_vars /\ WF_vars(NextNormalize)

\* Objects as the constructor's line 78 leaves them: an empty flight plan.
IdleObjects ==
    {[TestObject("ABC123", "jet", Point(0, 0), 0, heading,
                 Deg(35000), target_alt, Deg(450), Deg(450))
        EXCEPT !.waypoints = <<>>, !.target_heading = target_heading] :
         heading \in {0, Deg(90)}, target_heading \in {0, Deg(90)},
         target_alt \in {Deg(35000), Deg(36000)}}

\* update_position on one aircraft, with a flight plan or without.
InitAdvance ==
    /\ aircraft \in {<<a>> : a \in IdleObjects \cup
                          {k \in KinematicObjects : k.altitude = Deg(35000)}}
    /\ sim = SimInit
    /\ bus = <<>>
    /\ ctor = [outcome |-> "none", self |-> NewObject]
    /\ proc = NoProcess
    /\ last = NoCall
    /\ frame = NoFrame
    /\ steps = 0

SpecAdvance == InitAdvance /\ [][Next]_vars

---------------------------------------------------------------------------
(* Properties *)

Fleet == 1..Len(aircraft)

\* C1: a constructor call returns an Aircraft with a flight plan of 3 to 5
\* waypoints, current_waypoint_index = 0 and the three targets equal to the
\* current heading, ground speed and altitude.
C1_ConstructorSucceeds ==
    ctor.outcome # "none" =>
        /\ ctor.outcome = "returned"
        /\ Len(ctor.self.waypoints) \in 3..5
        /\ ctor.self.current_waypoint_index = 0
        /\ ctor.self.target_heading = ctor.self.heading
        /\ ctor.self.target_speed = ctor.self.ground_speed
        /\ ctor.self.target_altitude = ctor.self.altitude

\* C2: after any number of update_position calls the waypoint index of
\* every aircraft points into its flight plan.
C2_WaypointIndexInRange ==
    \A i \in Fleet :
        /\ 0 <= aircraft[i].current_waypoint_index
        /\ aircraft[i].current_waypoint_index < Len(aircraft[i].waypoints)

\* An update_position call reached the last waypoint and drew a new plan.
C2_Witness ==
    /\ last.op = "update_position"
    /\ last.regenerated
    /\ aircraft[last.i].current_waypoint_index = 0
    /\ Len(aircraft[last.i].waypoints) \in 3..5
    /\ aircraft[last.i].waypoints # TestPlan

\* C3: the heading of every aircraft is in [0, 360) after construction and
\* after any number of update_position calls.
C3_HeadingInRange ==
    \A i \in Fleet :
        aircraft[i].heading >= 0 /\ aircraft[i].heading < Deg(360)

\* C4: altitude stays in [1000, 60000] ft and ground speed in
\* [min_speed, max_speed] (jet 200..600 kt, prop 80..250 kt), whatever the
\* targets and the noise.
C4_AltitudeSpeedClamped ==
    \A i \in Fleet :
        LET a == aircraft[i]
            jet == a.aircraft_type = "jet"
        IN  /\ Deg(MinAltitude) <= a.altitude /\ a.altitude <= Deg(MaxAltitude)
            /\ a.min_speed <= a.ground_speed /\ a.ground_speed <= a.max_speed
            /\ a.min_speed = Deg(IF jet THEN JetMinSpeed ELSE PropMinSpeed)
            /\ a.max_speed = Deg(IF jet THEN JetMaxSpeed ELSE PropMaxSpeed)

\* An update_position call whose slew and whose noise both pushed altitude
\* and speed past the upper bounds, and left them on the bounds.
C4_Witness ==
    /\ last.op = "update_position"
    /\ last.noise.altitude > 0 /\ last.noise.speed > 0
    /\ aircraft[last.i].target_altitude > Deg(MaxAltitude)
    /\ aircraft[last.i].target_speed > aircraft[last.i].max_speed
    /\ aircraft[last.i].altitude = Deg(MaxAltitude)
    /\ aircraft[last.i].ground_speed = aircraft[last.i].max_speed

\* C5: in every state squawk = "1200" exactly when emergency_state is
\* false, and clear_emergency leaves squawk "1200" and emergency_state false
\* whatever emergency was triggered before.
C5_SquawkIffNoEmergency ==
    /\ \A i \in Fleet :
           (aircraft[i].squawk = "1200") <=> ~aircraft[i].emergency_state
    /\ last.op = "clear_emergency" =>
           /\ aircraft[last.i].squawk = "1200"
           /\ ~aircraft[last.i].emergency_state

\* clear_emergency was called on an aircraft squawking an emergency code.
C5_Witness ==
    /\ last.op = "clear_emergency"
    /\ last.prev_squawk \in {"7500", "7600", "7700"}
    /\ aircraft[last.i].squawk = "1200"

\* C6: trigger_emergency sets emergency_state and sets squawk to 7700 for
\* general, 7600 for communication, 7500 for hijack and 7700 for any other
\* kind, whatever the state before.
C6_TriggerSetsSquawk ==
    last.op = "trigger_emergency" =>
        /\ aircraft[last.i].emergency_state
        /\ last.kind = "general" => aircraft[last.i].squawk = "7700"
        /\ last.kind = "communication" => aircraft[last.i].squawk = "7600"
        /\ last.kind = "hijack" => aircraft[last.i].squawk = "7500"
        /\ last.kind \notin {"general", "communication", "hijack"} =>
               aircraft[last.i].squawk = "7700"

\* An unknown kind was triggered over an earlier hijack emergency.
C6_Witness ==
    /\ last.op = "trigger_emergency"
    /\ last.kind = "bogus"
    /\ last.prev_squawk = "7500"
    /\ aircraft[last.i].squawk = "7700"

\* Aircraft a and b are closer than 5 nm and less than 1000 ft apart in
\* altitude, in the current state.
PairInConflict(a, b) ==
    /\ geodesic(Point(aircraft[a].latitude, aircraft[a].longitude),
                Point(aircraft[b].latitude, aircraft[b].longitude)) * 100
           < 5 * 1852
    /\ aircraft[a].altitude - aircraft[b].altitude < Deg(1000)
    /\ aircraft[b].altitude - aircraft[a].altitude < Deg(1000)

\* C7: right after a separation scan, an aircraft is flagged exactly when
\* some other aircraft of the fleet is in conflict with it now.
C7_FlagIffInConflict ==
    last.op = "check_separation_conflicts" =>
        \A a \in Fleet :
            aircraft[a].conflict_state
                <=> \E b \in Fleet \ {a} : PairInConflict(a, b)

\* A scan cleared the flag of an aircraft that is in no conflict any more,
\* and flagged another one.
C7_Witness ==
    /\ last.op = "check_separation_conflicts"
    /\ \E a \in Fleet : last.before[a] /\ ~aircraft[a].conflict_state
    /\ \E b \in Fleet : aircraft[b].conflict_state

\* C8: a separation scan returns the number of unordered pairs {i, j} of
\* aircraft in conflict.
C8_ReturnsPairCount ==
    last.op = "check_separation_conflicts" =>
        last.ret = Cardinality({p \in Fleet \X Fleet :
                                   p[1] < p[2] /\ PairInConflict(p[1], p[2])})

\* A scan returned 2 with all three aircraft flagged: the middle aircraft
\* is in both pairs.
C8_Witness ==
    /\ last.op = "check_separation_conflicts"
    /\ last.ret = 2
    /\ \A a \in Fleet : aircraft[a].conflict_state

\* C9: every produce call carries the configured topic and a key equal to
\* the icao_address member of its JSON value; the call a publish has just
\* made is keyed with the icao_address of the report it was given, which is
\* that of the aircraft that reported.
C9_KeyedByIcaoAddress ==
    /\ \A k \in DOMAIN bus :
           /\ bus[k].topic = sim.config.topic
           /\ json_loads_member(bus[k].value, "icao_address") = bus[k].key
    /\ (last.op = "publish_message" /\ last.produced) =>
           /\ bus[Len(bus)].key = last.message.icao_address
           /\ bus[Len(bus)].key = aircraft[last.i].icao_address

\* Two produce calls for one aircraft, before and after it moved: the same
\* key, different values.
C9_Witness ==
    /\ last.op = "publish_message" /\ last.produced
    /\ \E k \in DOMAIN bus :
           /\ k < Len(bus)
           /\ bus[k].key = bus[Len(bus)].key
           /\ json_loads_member(bus[k].value, "longitude")
                  # json_loads_member(bus[Len(bus)].value, "longitude")

\* C10: messages_sent is the number of produce calls that returned; a
\* publish leaves it alone or adds 1, and adds 1 exactly when its produce
\* call returned.
C10_CountsReturnedProduceCalls ==
    /\ sim.messages_sent
           = Cardinality({k \in DOMAIN bus : bus[k].outcome = "returned"})
    /\ last.op = "publish_message" =>
           sim.messages_sent
               = last.prev_sent
                 + (IF last.produced /\ bus[Len(bus)].outcome = "returned"
                    THEN 1 ELSE 0)

\* A publish whose produce raised, after one that was counted.
C10_Witness ==
    /\ last.op = "publish_message" /\ last.produced
    /\ bus[Len(bus)].outcome = "raised"
    /\ sim.messages_sent = 1
    /\ Len(bus) = 2

\* C11: when Producer(...) raises at startup and the configuration file
\* is complete, the constructor of the simulator returns, in null mode,
\* with the fleet the configuration asks for.
C11_NullModeStarts ==
    (/\ last.op = "ADSBSimulator"
     /\ last.kafka.producer = "raised"
     /\ last.file.state = "ok"
     /\ last.file.keys = AllConfigKeys) =>
        /\ last.exc = "none"
        /\ sim.kafka_producer = "None"
        /\ Len(aircraft) = last.file.values.num_aircraft

\* The produce calls of the bus that returned.
Returned == {k \in DOMAIN bus : bus[k].outcome = "returned"}

\* The stages of one pass of the loop of run.
AllStages == {"advance", "scan", "emergencies", "poll", "stats"}

\* C12: a produce call that raises during a pass is made once, leaves
\* messages_sent alone and the loop running at the next aircraft; the pass
\* then advances every aircraft before its later stages.
C12_ProduceFailureDoesNotFailTick ==
    /\ (last.op = "run_step" /\ last.outcome = "raised") =>
           /\ sim.messages_sent = last.prev_sent
           /\ Len(bus) = last.prev_calls + 1
           /\ sim.running
           /\ proc.pc = "aircraft"
           /\ proc.index = last.i + 1
    /\ (proc.raised # 0 /\ proc.pc \in {"emergencies", "poll", "stats"}) =>
           proc.advanced = Fleet

\* A pass in which the produce call of the first aircraft raised has run
\* to its end, and the loop is about to start the next pass.
C12_Witness ==
    /\ proc.raised = 1
    /\ proc.pc = "while"
    /\ proc.done = AllStages
    /\ proc.advanced = Fleet
    /\ sim.running
    /\ sim.messages_sent = Cardinality(Returned)
    /\ Cardinality(Returned) < Len(bus)

\* C13: a publish attempted after stop has run makes no produce call and
\* leaves messages_sent alone.
C13_NoPublishAfterStop ==
    (last.op = "publish_message" /\ proc.final_stats > 0) =>
        /\ ~last.produced
        /\ sim.messages_sent = last.prev_sent

\* C14: a signal delivered while a pass is in progress lets that pass run
\* to its end: when the loop has been left, every aircraft was advanced and
\* every stage of the pass was done.
C14_SignalLetsPassComplete ==
    (proc.signalled /\ proc.interrupted_at \in PassStages) =>
        /\ proc.advanced = Fleet
        /\ proc.done = AllStages

\* C15: when an exception raised in the loop has ended the process, the
\* error was logged, the producer was drained and the exit code is 1.
C15_LoopExceptionExitsOne ==
    (proc.pc = "exited" /\ proc.loop_exception # "none") =>
        /\ proc.errors > 0
        /\ proc.final_stats > 0
        /\ proc.exit_code = 1

C17_MissingKeyFallsBack ==
    (/\ last.op = "ADSBSimulator"
     /\ last.file.state = "ok"
     /\ last.file.values.num_aircraft = 0) =>
        /\ last.exc = "none"
        /\ (last.kafka.producer = "returned" /\ last.kafka.admin = "returned")
               => last.producer = "Producer"

\* C18: when the producer was constructed, no outcome of the topic
\* provisioning removes it.
C18_TopicFailureKeepsProducer ==
    (/\ last.op = "ADSBSimulator"
     /\ last.file.state = "ok"
     /\ last.file.keys = AllConfigKeys
     /\ last.kafka.producer = "returned") =>
        last.producer = "Producer"

WithinBounds(a) ==
    /\ a.altitude >= Deg(1000) /\ a.altitude <= Deg(60000)
    /\ a.ground_speed >= a.min_speed /\ a.ground_speed <= a.max_speed
    /\ a.heading >= 0 /\ a.heading < Deg(360)

\* n is x truncated to an integer (x >= 0, in grid units).
Truncates(n, x) == n * Scale <= x /\ x < (n + 1) * Scale

\* C20: the report of an aircraft within the kinematic bounds carries the
\* altitude, speed and heading truncated to integers, inside the same
\* bounds (heading in 0..359), and the aircraft's identity fields.
C20_ReportFields ==
    (last.op = "generate_message" /\ WithinBounds(aircraft[last.i])) =>
        LET a == aircraft[last.i]
            m == last.message
        IN  /\ Truncates(m.altitude, a.altitude)
            /\ m.altitude >= 1000 /\ m.altitude <= 60000
            /\ Truncates(m.ground_speed, a.ground_speed)
            /\ Deg(m.ground_speed) >= a.min_speed
            /\ Deg(m.ground_speed) <= a.max_speed
            /\ Truncates(m.heading, a.heading)
            /\ m.heading >= 0 /\ m.heading <= 359
            /\ m.icao_address = a.icao_address
            /\ m.callsign = a.callsign
            /\ m.squawk = a.squawk
            /\ m.aircraft_type = a.aircraft_type

\* A report of an aircraft whose altitude, speed and heading all have a
\* fractional part of at least one half.
C20_Witness ==
    /\ last.op = "generate_message"
    /\ WithinBounds(aircraft[last.i])
    /\ aircraft[last.i].altitude % Scale >= Scale \div 2
    /\ aircraft[last.i].ground_speed % Scale >= Scale \div 2
    /\ aircraft[last.i].heading % Scale >= Scale \div 2

\* C23: the normaliser returns, for every argument; what it returns is the
\* argument itself when that is within [-180, 180], and otherwise a value
\* within [-180, 180] that differs from the argument by a multiple of 360.
C23_NormalizerContract ==
    /\ [](frame.pc = "return" =>
            /\ frame.diff >= -Deg(180) /\ frame.diff <= Deg(180)
            /\ (frame.arg >= -Deg(180) /\ frame.arg <= Deg(180))
                   => frame.diff = frame.arg
            /\ (frame.arg - frame.diff) % Deg(360) = 0)
    /\ (frame.pc = "while_greater" ~> frame.pc = "return")

\* C29 as stated: for headings in [0, 360) the normalised difference is in
\* (-180, 180] and congruent modulo 360 to target_heading - heading (the
\* float the subtraction of line 171 yields).
C29_HalfOpenRange ==
    (frame.pc = "return" /\ frame.heading >= 0) =>
        /\ frame.diff > -Deg(180) /\ frame.diff <= Deg(180)
        /\ (frame.diff - frame.arg) % Deg(360) = 0
        /\ frame.arg = FSub(frame.target_heading, frame.heading)

\* C29 amended: for headings in [0, 360) the normalised difference is in
\* the closed interval [-180, 180] and congruent modulo 360 to
\* target_heading - heading.
C29_ClosedRange ==
    (frame.pc = "return" /\ frame.heading >= 0) =>
        /\ frame.diff >= -Deg(180) /\ frame.diff <= Deg(180)
        /\ (frame.diff - frame.arg) % Deg(360) = 0
        /\ frame.arg = FSub(frame.target_heading, frame.heading)

\* The difference 0 - 180 has been returned as -180.
C29_Witness ==
    /\ frame.pc = "return"
    /\ frame.heading = Deg(180)
    /\ frame.target_heading = 0
    /\ frame.diff = -Deg(180)

\* C21: generate_message leaves every attribute of the aircraft as it
\* was, and a second call right after a first returns the same report but
\* for the timestamp.
C21_ReportIdempotent ==
    last.op = "generate_message" =>
        /\ aircraft[last.i] = last.before
        /\ last.previous # <<>> =>
               [last.previous[1] EXCEPT !.timestamp = 0]
                   = [last.message EXCEPT !.timestamp = 0]

\* Two successive reports, taken at different times.
C21_Witness ==
    /\ last.op = "generate_message"
    /\ last.previous # <<>>
    /\ last.previous[1].timestamp # last.message.timestamp
    /\ last.message.altitude = PyInt(aircraft[last.i].altitude)

\* The aircraft was, before the call recorded in last, less than 5 km from
\* its current waypoint.
WasNearWaypoint ==
    LET b == last.before
        wp == b.waypoints[b.current_waypoint_index + 1]
    IN  geodesic(Point(b.latitude, b.longitude),
                 Point(wp.latitude, wp.longitude)) < 5 * 10

\* C22: an update_position that starts less than 5 km from the current
\* waypoint moves the index on by one, or, on the last waypoint, replaces
\* the plan by 3 to 5 new waypoints with index 0; one that starts 5 km or
\* more away leaves the index and the plan alone.
C22_WaypointProgression ==
    (/\ last.op = "update_position"
     /\ last.before.current_waypoint_index < Len(last.before.waypoints)) =>
        LET b == last.before
            a == aircraft[last.i]
        IN  IF ~WasNearWaypoint
            THEN /\ a.current_waypoint_index = b.current_waypoint_index
                 /\ a.waypoints = b.waypoints
            ELSE IF b.current_waypoint_index + 1 < Len(b.waypoints)
            THEN /\ a.current_waypoint_index = b.current_waypoint_index + 1
                 /\ a.waypoints = b.waypoints
            ELSE /\ a.current_waypoint_index = 0
                 /\ Len(a.waypoints) \in 3..5
                 /\ last.regenerated

\* An update_position that started on the first waypoint of three moved
\* the index from 0 to 1.
C22_Witness ==
    /\ last.op = "update_position"
    /\ last.before.current_waypoint_index = 0
    /\ Len(last.before.waypoints) = 3
    /\ WasNearWaypoint
    /\ aircraft[last.i].current_waypoint_index = 1

\* The length of the shorter arc between two headings.
ArcLength(a, b) ==
    LET m == (a - b) % Deg(360)
    IN  IF m <= Deg(180) THEN m ELSE Deg(360) - m

\* The rounding error allowed on a heading: one spacing of the floats at 360.
HeadingEps == Ulp(Deg(360))

\* C28: the heading slew of update_position, before the noise.  With the
\* target further than 3 * delta_time along the shorter arc, the heading
\* moves by 3 * delta_time and gets that much closer to the target;
\* otherwise it becomes the target.  It never turns by more than
\* 3 * delta_time.  (Equalities are up to the rounding of the floats.)
C28_HeadingSlew ==
    (last.op = "update_position" /\ ~last.skipped) =>
        LET h0 == last.tracked.heading
            t == last.tracked.target_heading
            h1 == last.slewed
            turn == MaxTurnRate * last.delta_time
        IN  /\ ArcLength(h1, h0) <= turn + HeadingEps
            /\ ArcLength(t, h0) > turn + HeadingEps =>
                   /\ ArcLength(h1, h0) >= turn - HeadingEps
                   /\ ArcLength(t, h1) <= ArcLength(t, h0) - turn + HeadingEps
                   /\ ArcLength(t, h1) >= ArcLength(t, h0) - turn - HeadingEps
            /\ ArcLength(t, h0) <= turn - HeadingEps =>
                   ArcLength(t, h1) = 0

\* A slew that stepped across north: from just below 360 toward 90.
C28_Witness ==
    /\ last.op = "update_position" /\ ~last.skipped
    /\ last.tracked.heading > Deg(270)
    /\ last.tracked.target_heading = Deg(90)
    /\ last.slewed < Deg(90)
    /\ last.slewed # last.tracked.target_heading

\* The five steps that follow the waypoint step, applied in order to the
\* aircraft as the waypoint step of the call recorded in last left it.
PipelineResult ==
    add_realistic_variations(
        translate(
            update_altitude(
                update_speed(
                    update_heading(last.tracked, last.delta_time),
                    last.delta_time),
                last.delta_time),
            last.delta_time),
        last.noise)

\* C30 as stated: update_position with delta_time > 0 applies, for every
\* aircraft state, the heading slew, the speed slew, the altitude slew, the
\* translation and the noise, in that order; an aircraft with an empty
\* waypoint list is slewed, translated and perturbed too.
C30_PipelineAlwaysApplied ==
    (last.op = "update_position" /\ last.delta_time > 0) =>
        aircraft[last.i] = PipelineResult

\* C30, amended: the five steps are applied in that order for every
\* aircraft whose waypoint list is not empty; an aircraft whose waypoint
\* list is empty is left exactly as it was.
C30_PipelineUnlessNoPlan ==
    (last.op = "update_position" /\ last.delta_time > 0) =>
        IF last.before.waypoints = <<>>
        THEN aircraft[last.i] = last.before
        ELSE aircraft[last.i] = PipelineResult

\* An aircraft without a flight plan, off its target heading and target
\* altitude and flying at 450 kt, was updated and stayed as it was.
C30_Witness ==
    /\ last.op = "update_position" /\ last.delta_time > 0
    /\ last.before.waypoints = <<>>
    /\ last.before.heading # last.before.target_heading
    /\ last.before.altitude # last.before.target_altitude
    /\ last.before.ground_speed > 0
    /\ aircraft[last.i] = last.before

\* The aircraft of the fleet keep their identity over a step.
IdentityKept ==
    /\ Len(aircraft') = Len(aircraft)
    /\ \A i \in 1..Len(aircraft) :
           /\ aircraft'[i].icao_address = aircraft[i].icao_address
           /\ aircraft'[i].callsign = aircraft[i].callsign
           /\ aircraft'[i].aircraft_type = aircraft[i].aircraft_type

\* C24: once the constructor of the simulator has been called with a
\* complete configuration the fleet holds num_aircraft aircraft, and from
\* then on no step adds, removes or replaces an aircraft or changes an
\* icao_address, callsign or category.
C24_FleetSizedAndFixed ==
    /\ []((/\ proc.pc # "main"
           /\ last.op = "ADSBSimulator"
           /\ last.file.state = "ok"
           /\ last.file.keys = AllConfigKeys) =>
              Len(aircraft) = last.file.values.num_aircraft)
    /\ [][proc.pc # "main" => IdentityKept]_vars

LoopCalls == SelectSeq(proc.order, LAMBDA c : c.i > 0)
TailCalls == SelectSeq(proc.order, LAMBDA c : c.i = 0)

\* The aircraft updated before the k-th call of the pass.
AdvancedBefore(k) ==
    {proc.order[j].i : j \in {n \in 1..(k - 1) : proc.order[n].call = "advance"}}

\* The calls of the pass that decide on, build or publish a report.
EmissionCalls ==
    {k \in DOMAIN proc.order : proc.order[k].call \in {"decide", "report", "publish"}}

\* C26 as stated: within a pass, every aircraft of the fleet has been
\* updated before the first emission decision, report or publish is made.
C26_AllAdvancedFirst ==
    \A k \in EmissionCalls : AdvancedBefore(k) = Fleet

\* C26, amended: within a pass, each aircraft has been updated before the
\* emission decision, the report and the publish for that aircraft are
\* made, and the report carries the updated state.
C26_EachAdvancedFirst ==
    /\ \A k \in EmissionCalls : proc.order[k].i \in AdvancedBefore(k)
    /\ last.op = "run_step" =>
           /\ last.i \in proc.advanced
           /\ [last.message EXCEPT !.timestamp = 0]
                  = generate_message(aircraft[last.i], 0)

\* A pass in which the report of the first aircraft was published before
\* the second aircraft was updated.
C26_Witness ==
    /\ last.op = "run_step" /\ last.i = 2 /\ last.due
    /\ \E k \in EmissionCalls :
           /\ proc.order[k] = Call("publish", 1)
           /\ 2 \notin AdvancedBefore(k)
    /\ \E k \in EmissionCalls : proc.order[k] = Call("publish", 2)

\* The calls that follow the for loop in a pass that runs to its end.
PassTail(pumped) ==
    <<Call("scan", 0), Call("emergencies", 0)>>
        \o (IF pumped THEN <<Call("poll", 0)>> ELSE <<>>)
        \o <<Call("stats", 0), Call("sleep", 0)>>

IsPrefix(s, t) == Len(s) <= Len(t) /\ s = SubSeq(t, 1, Len(s))

OnlyFlagChanged(i) ==
    [aircraft'[i] EXCEPT !.conflict_state = aircraft[i].conflict_state]
        = aircraft[i]

\* C31: a set_conflict_state call and a separation scan change no
\* attribute of any aircraft but conflict_state, and nothing of the
\* simulator (messages_sent included) or of the bus; set_conflict_state
\* changes the one aircraft it is called on, and a second call with the
\* same argument would leave the state it has produced.
C31_ConflictFrame ==
    [][last'.op \in {"set_conflict_state", "check_separation_conflicts"} =>
          /\ Len(aircraft') = Len(aircraft)
          /\ \A i \in 1..Len(aircraft) : OnlyFlagChanged(i)
          /\ sim' = sim
          /\ bus' = bus
          /\ last'.op = "set_conflict_state" =>
                 /\ \A i \in 1..Len(aircraft) \ {last'.i} :
                        aircraft'[i] = aircraft[i]
                 /\ aircraft'[last'.i].conflict_state = last'.in_conflict
                 /\ set_conflict_state(aircraft'[last'.i], last'.in_conflict)
                        = aircraft'[last'.i]]_vars

\* A scan that flagged a pair of aircraft that had moved before it.
C31_Witness ==
    /\ last.op = "check_separation_conflicts"
    /\ last.ret > 0
    /\ \E a \in Fleet : ~last.before[a] /\ aircraft[a].conflict_state
    /\ \E a \in Fleet : aircraft[a].altitude # aircraft[a].target_altitude

\* C32: no step of the run loop clears an emergency or changes the squawk
\* of an aircraft in emergency, so the aircraft in emergency only grow in
\* number; with emergency_frequency = 0 no step puts an aircraft in
\* emergency.
C32_EmergencyKept ==
    [][/\ Len(aircraft') = Len(aircraft)
       /\ \A i \in 1..Len(aircraft) :
              /\ aircraft[i].emergency_state =>
                     /\ aircraft'[i].emergency_state
                     /\ aircraft'[i].squawk = aircraft[i].squawk
              /\ sim.config.emergency_frequency = 0 =>
                     aircraft'[i].emergency_state = aircraft[i].emergency_state
       /\ Cardinality({i \in 1..Len(aircraft) : aircraft[i].emergency_state})
              <= Cardinality({i \in 1..Len(aircraft') : aircraft'[i].emergency_state})]_vars

\* The second pass sampled emergencies with a draw that triggers a hijack:
\* the first aircraft still squawks the 7700 of its earlier emergency, the
\* second squawks 7500.
C32_Witness ==
    /\ last.op = "run_emergencies"
    /\ proc.pass = 2
    /\ aircraft[1].emergency_state /\ aircraft[1].squawk = "7700"
    /\ aircraft[2].emergency_state /\ aircraft[2].squawk = "7500"

\* C33: a process that has ended has run the shutdown sequence of stop
\* exactly once: one final statistics line, at most one flush, running
\* false.
C33_StopExactlyOnce ==
    proc.pc = "exited" =>
        /\ ~sim.running
        /\ proc.final_stats = 1
        /\ Len(proc.flushes) <= 1

\* The positions in the log of the pass of the calls of one kind made for
\* aircraft i.
CallsOf(call, i) == {k \in DOMAIN proc.order : proc.order[k] = Call(call, i)}

\* C34: in a pass every aircraft is updated at most once, and exactly once
\* when the for loop has gone through the fleet; at most one report is
\* generated for it and it is published once; the report is generated
\* after the update of its aircraft and is the report of the aircraft as
\* the update left it.
C34_OncePerPass ==
    /\ \A i \in Fleet :
           /\ Cardinality(CallsOf("advance", i)) <= 1
           /\ Cardinality(CallsOf("report", i)) <= 1
           /\ Cardinality(CallsOf("publish", i)) = Cardinality(CallsOf("report", i))
           /\ \A r \in CallsOf("report", i) :
                  /\ \E a \in CallsOf("advance", i) : a < r
                  /\ \A q \in CallsOf("publish", i) : r < q
           /\ (proc.pc = "aircraft" /\ i < proc.index) =>
                  Cardinality(CallsOf("advance", i)) = 1
    /\ TailCalls # <<>> =>
           \A i \in Fleet : Cardinality(CallsOf("advance", i)) = 1
    /\ last.op = "run_step" =>
           /\ Cardinality(CallsOf("report", last.i)) = (IF last.due THEN 1 ELSE 0)
           /\ last.due =>
                  /\ last.message.altitude = PyInt(aircraft[last.i].altitude)
                  /\ last.message.latitude = Round6(aircraft[last.i].latitude)
                  /\ last.message.longitude = Round6(aircraft[last.i].longitude)
                  /\ last.message.ground_speed = PyInt(aircraft[last.i].ground_speed)
                  /\ last.produced => bus[Len(bus)].value = to_json(last.message)

\* The second pass has gone through the fleet: both aircraft updated once
\* in it, one of them reported with its new altitude, and the report is on
\* the bus.
C34_Witness ==
    /\ proc.pass = 2
    /\ proc.pc = "aircraft" /\ proc.index > Len(aircraft)
    /\ last.op = "run_step" /\ last.due /\ last.produced
    /\ last.outcome = "returned"
    /\ Cardinality(CallsOf("report", 1)) = 0
    /\ Cardinality(CallsOf("report", 2)) = 1
    /\ last.message.altitude > PyInt(Deg(35000))

=============================================================================
